---- MODULE Spec2Model ----
(***************************************************************************)
(* Verification model of two components of amazon-nova-samples:            *)
(*                                                                         *)
(*  - NovaResponseParser (NovaStreamParser/nova_response_parser.py), the   *)
(*    incremental tag scanner, checked under ParserSpec;                   *)
(*  - SessionTransitionManager (session-continuation/console-python/       *)
(*    session_manager.py), the session replacement coordinator, checked    *)
(*    under Spec (every fault and timeout enabled) and under E2ESpec (the  *)
(*    fault-free environment with weak fairness of the asyncio tasks).     *)
(*                                                                         *)
(* Text is a sequence of one-character strings.                            *)
(***************************************************************************)
EXTENDS Integers, Sequences, FiniteSets, TLC

(***************************************************************************)
(* Bounds of the model.                                                    *)
(***************************************************************************)
\* number of pieces a parser input text is assembled from
MaxPieces == 4
\* number of fragments one parser input text is cut into
MaxFrags == 3
\* number of sessions create_session is asked for in one run
MaxSessions == 3
\* number of chunks the audio layer passes to add_audio_chunk in one run
MaxChunks == 2
\* number of events the monitor takes from output queues in one run
MaxEvents == 5
\* cap of the per-session SPECULATIVE and FINAL text counters
MaxTexts == 1
\* scaled configuration: bytes of one microphone chunk, AudioBuffer.max_buffer_size,
\* max_single_message_bytes and max_chat_history_bytes
ChunkBytes == 2
MaxBufferSize == 3
MaxSingleMessageBytes == 16
MaxChatHistoryBytes == 11
\* number of chunks handed to NovaParsedEventStream.add in one run
MaxRouted == 4
\* number of calls of add_chunk and clear on an AudioBuffer in one run
MaxBufferOps == 5
\* number of calls of add_message on a ConversationHistory in one run
MaxMessages == 4
\* number of audio chunks a session puts on its output-audio queue in one run
MaxOutputChunks == 3

(***************************************************************************)
(* Part I.  NovaResponseParser                                             *)
(***************************************************************************)

\* NovaResponseParser.__init__: target_tag_name, target_start_tag, target_end_tag
target_tag_name == <<"t", "g">>
target_start_tag == <<"<">> \o target_tag_name \o <<">">>
target_end_tag == <<"<", "/">> \o target_tag_name \o <<">">>

\* the pieces input texts are assembled from: both delimiters, an ordinary
\* character, and the two bracket characters on their own
Pieces == {target_start_tag, target_end_tag, <<"x">>, <<"<">>, <<">">>}

RECURSIVE Texts(_)
Texts(n) == IF n = 0 THEN {<<>>}
            ELSE Texts(n - 1) \cup {t \o p : t \in Texts(n - 1), p \in Pieces}

\* does the token tok occur in text at index i
OccursAt(text, tok, i) ==
    /\ i >= 1
    /\ i + Len(tok) - 1 <= Len(text)
    /\ SubSeq(text, i, i + Len(tok) - 1) = tok

\* indices >= from at which tok occurs in text
Occurrences(text, tok, from) ==
    {i \in from..Len(text) : OccursAt(text, tok, i)}

Contains(text, tok) == Occurrences(text, tok, 1) # {}

Min(S) == CHOOSE m \in S : \A k \in S : m <= k

\* re.sub(r'<name>.*?</name>', '', text, flags=re.DOTALL): every leftmost
\* start delimiter with the nearest end delimiter after it is cut out, the
\* scan resuming behind the match
RECURSIVE RemoveTagsFrom(_)
RemoveTagsFrom(text) ==
    LET starts == Occurrences(text, target_start_tag, 1)
    IN  IF starts = {} THEN text
        ELSE LET s == Min(starts)
                 ends == Occurrences(text, target_end_tag, s + Len(target_start_tag))
             IN  IF ends = {} THEN text
                 ELSE LET e == Min(ends)
                      IN  SubSeq(text, 1, s - 1)
                          \o RemoveTagsFrom(SubSeq(text, e + Len(target_end_tag), Len(text)))

\* NovaResponseParser.reset (and the fields __init__ sets)
ResetParser ==
    [tag |-> <<>>, inside_tag |-> FALSE, text_chunks |-> <<>>,
     is_found_target_start_tag |-> FALSE, is_found_target_end_tag |-> FALSE,
     inside_tag_content |-> FALSE]

\* one iteration of the character loop of process_chunk
ScanChar(p, curr) ==
    LET t1 == IF p.inside_tag THEN Append(p.tag, curr) ELSE p.tag
    IN  IF curr = "<"
        THEN [p EXCEPT !.inside_tag = TRUE, !.tag = <<"<">>]
        ELSE IF curr = ">"
        THEN IF t1 = target_start_tag
             THEN [p EXCEPT !.inside_tag = FALSE, !.inside_tag_content = TRUE,
                            !.is_found_target_start_tag = TRUE, !.tag = <<>>]
             ELSE IF t1 = target_end_tag
             THEN [p EXCEPT !.inside_tag = FALSE, !.inside_tag_content = FALSE,
                            !.is_found_target_end_tag = TRUE, !.tag = t1]
             ELSE [p EXCEPT !.inside_tag = FALSE, !.tag = <<>>]
        ELSE [p EXCEPT !.tag = t1]

\* the character loop of process_chunk over one fragment
RECURSIVE ScanChunk(_, _)
ScanChunk(p, chunk) ==
    IF chunk = <<>> THEN p
    ELSE ScanChunk(ScanChar(p, Head(chunk)), Tail(chunk))

\* the null reference handed to process_chunk as a fragment
NoText == <<"None">>

\* what a call raises
NoError == "none"

\* process_chunk on a non-null fragment: the parser afterwards, whether the
\* callback was invoked, and the text it was handed
ProcessChunk(p, text_chunk) ==
    LET q == ScanChunk([p EXCEPT !.text_chunks = p.text_chunks \o text_chunk], text_chunk)
    IN  IF q.is_found_target_start_tag /\ q.is_found_target_end_tag
        THEN [parser |-> ResetParser, called |-> TRUE,
              text |-> RemoveTagsFrom(q.text_chunks)]
        ELSE IF ~q.inside_tag_content /\ ~q.inside_tag
        THEN [parser |-> ResetParser, called |-> TRUE, text |-> q.text_chunks]
        ELSE [parser |-> q, called |-> FALSE, text |-> <<>>]

\* process_chunk without the test of lines 61-62: iterating over the null
\* reference raises TypeError after line 64 has appended it
ProcessChunkCallUnchecked(p, fragment) ==
    IF fragment = NoText
    THEN [parser |-> [p EXCEPT !.text_chunks = @ \o NoText], called |-> FALSE,
          text |-> <<>>, raised |-> "TypeError"]
    ELSE LET r == ProcessChunk(p, fragment)
         IN  [parser |-> r.parser, called |-> r.called, text |-> r.text,
              raised |-> NoError]

\* process_chunk on any fragment: lines 61-62 raise for the null reference
\* before anything is touched, every other fragment is processed
ProcessChunkCall(p, fragment) ==
    IF fragment = NoText
    THEN [parser |-> p, called |-> FALSE, text |-> <<>>, raised |-> "ValueError"]
    ELSE LET r == ProcessChunk(p, fragment)
         IN  [parser |-> r.parser, called |-> r.called, text |-> r.text,
              raised |-> NoError]

VARIABLES
    input,      \* the text the caller will feed, fragment by fragment
    fed,        \* number of characters of input fed so far
    nfrags,     \* number of fragments fed so far
    parser,     \* the fields of the NovaResponseParser
    emitted,    \* concatenation of the texts handed to the callback
    ncalls,     \* per fragment fed: whether the callback was invoked
    cuts,       \* per fragment fed: index of its last character
    text_chunk, \* the fragment handed to the last call of process_chunk
    parse_error \* what the last call of process_chunk raised

pvars ==
    <<input, fed, nfrags, parser, emitted, ncalls, cuts, text_chunk, parse_error>>

(***************************************************************************)
(* Part II.  SessionTransitionManager                                      *)
(*                                                                         *)
(* asyncio runs one task at a time and switches task only at an await that *)
(* suspends, so every action below is the code a task runs between two     *)
(* suspensions.  Awaits that suspend: create_session (initialize_stream),  *)
(* the send_* calls of a stream manager, asyncio.sleep, the wait for a     *)
(* held lock and the wait for a cancelled task that is still running.      *)
(* Session ids are 1, 2, ... (the code's session_0, session_1, ...).       *)
(* The model covers the manager while it runs: close_all_sessions, which   *)
(* ends it, and the recording files are left out.                          *)
(***************************************************************************)

\* Optional[SessionInfo] = None
None == 0

SessionIds == 1..MaxSessions

\* the handoff (_send_history_and_start_audio) runs inline in the monitor
\* task (owner 0) or in the task line 583 creates (owner 1)
Inline == 0
Forced == 1
Owners == {Inline, Forced}

\* ---- AudioBuffer ------------------------------------------------------

\* AudioBuffer.__init__ / clear
EmptyBuffer == [buffer |-> <<>>, total_size |-> 0]

\* the eviction loop sparing the chunk that was just added
RECURSIVE EvictOldKeepsNewest(_)
EvictOldKeepsNewest(b) ==
    IF b.total_size > MaxBufferSize /\ Len(b.buffer) > 1
    THEN EvictOldKeepsNewest([buffer |-> Tail(b.buffer),
                              total_size |-> b.total_size - Head(b.buffer).len])
    ELSE b

\* the eviction loop of AudioBuffer.add_chunk
RECURSIVE EvictOld(_)
EvictOld(b) ==
    IF b.total_size > MaxBufferSize /\ b.buffer # <<>>
    THEN EvictOld([buffer |-> Tail(b.buffer),
                   total_size |-> b.total_size - Head(b.buffer).len])
    ELSE b

\* AudioBuffer.add_chunk
AddChunk(b, chunk) ==
    EvictOld([buffer |-> Append(b.buffer, chunk),
              total_size |-> b.total_size + chunk.len])

\* ---- ConversationHistory ----------------------------------------------

\* "... [truncated]"
TruncationMarker ==
    <<".", ".", ".", " ", "[", "t", "r", "u", "n", "c", "a", "t", "e", "d", "]">>

\* len(role.encode('utf-8'))
RoleBytes(role) == IF role = "USER" THEN 4 ELSE 9

\* Python's content_bytes[:k]
SliceTo(bytes, k) ==
    IF k >= 0
    THEN SubSeq(bytes, 1, IF k < Len(bytes) THEN k ELSE Len(bytes))
    ELSE SubSeq(bytes, 1, IF Len(bytes) + k > 0 THEN Len(bytes) + k ELSE 0)

\* ConversationHistory._get_message_size_bytes
MessageSizeBytes(message) == Len(message.content) + RoleBytes(message.role)

\* ConversationHistory._get_total_size_bytes
RECURSIVE TotalSizeBytes(_)
TotalSizeBytes(msgs) ==
    IF msgs = <<>> THEN 0
    ELSE MessageSizeBytes(Head(msgs)) + TotalSizeBytes(Tail(msgs))

\* ConversationHistory.__init__ with the two caps it is configured with
NewHistory(single_cap, total_cap) ==
    [messages |-> <<>>, max_single_message_bytes |-> single_cap,
     max_chat_history_bytes |-> total_cap]

\* ConversationHistory._trim_history for a history with the cap total_cap
RECURSIVE TrimHistoryTo(_, _)
TrimHistoryTo(msgs, total_cap) ==
    IF msgs # <<>> /\ TotalSizeBytes(msgs) > total_cap
    THEN TrimHistoryTo(Tail(msgs), total_cap)
    ELSE msgs

\* ConversationHistory._trim_history of the manager's history
TrimHistory(msgs) == TrimHistoryTo(msgs, MaxChatHistoryBytes)

\* add_message lines 161-172: the content that is stored (the model's bytes
\* are one-byte characters, so the decode of line 171 ignores nothing)
StoredContent(content, single_cap) ==
    IF Len(content) > single_cap
    THEN SliceTo(content, single_cap - Len(TruncationMarker)) \o TruncationMarker
    ELSE content

\* ConversationHistory.add_message: the history afterwards and the dict returned
AddMessageTo(h, role, content) ==
    LET messages_before == Len(h.messages)
        trimmed == TrimHistoryTo(
                       Append(h.messages,
                              [role |-> role,
                               content |-> StoredContent(content,
                                               h.max_single_message_bytes)]),
                       h.max_chat_history_bytes)
        messages_removed == messages_before - Len(trimmed) + 1
    IN  [history |-> [h EXCEPT !.messages = trimmed],
         result |-> [truncated |-> Len(content) > h.max_single_message_bytes,
                     messages_removed |-> IF messages_removed > 1
                                          THEN messages_removed ELSE 0,
                     total_bytes |-> TotalSizeBytes(trimmed)]]

\* ConversationHistory.add_message on the manager's history: the messages afterwards
AddMessage(msgs, role, content) ==
    AddMessageTo([NewHistory(MaxSingleMessageBytes, MaxChatHistoryBytes)
                      EXCEPT !.messages = msgs], role, content).history.messages

\* the text of a textOutput event that is not the barge-in marker
TextContent == <<"h", "i">>

\* ---- SessionInfo ------------------------------------------------------

\* no SessionInfo with this id exists (not created yet, or creation failed)
NoSessionInfo ==
    [state |-> "absent", received_completion_start |-> FALSE,
     audio_content_started |-> FALSE, history |-> <<>>, signals |-> {},
     audio |-> <<>>, completion_start_arrived |-> FALSE]

\* create_session after initialize_stream returned: SessionInfo.__init__ and
\* state = ACTIVE. What its stream manager has been handed is kept apart by
\* kind: the history events and the audio chunks in order, the control events
\* as a set. completion_start_arrived tells whether the service has put the
\* completionStart of the session on the output queue of its stream manager
NewSessionInfo ==
    [state |-> "active", received_completion_start |-> FALSE,
     audio_content_started |-> FALSE, history |-> <<>>, signals |-> {},
     audio |-> <<>>, completion_start_arrived |-> FALSE]

\* the SessionInfo fields _process_event keeps for the session it is given,
\* which is always the current session (_monitor_events line 482); a session
\* becomes current with these fields as __init__ set them
NewEventInfo ==
    [current_generation_stage |-> "none", speculative_text_count |-> 0,
     final_text_count |-> 0, barge_in_detected |-> FALSE]

\* a call of a send_* method, send_raw_event or add_audio_chunk of the stream
\* manager of session id
SendTo(ss, id, token) ==
    CASE token.kind = "audio" -> [ss EXCEPT ![id].audio = Append(@, token.n)]
      [] token.kind \in {"contentStart", "textInput", "contentEnd"} ->
            [ss EXCEPT ![id].history = Append(@, token)]
      [] OTHER -> [ss EXCEPT ![id].signals = @ \cup {token.kind}]

\* what a stream is handed: a history event, a control event or an audio chunk
Token(kind, role, content, n) ==
    [kind |-> kind, role |-> role, content |-> content, n |-> n]
Control(kind) == Token(kind, "", <<>>, 0)
Audio(chunk) == Token("audio", "", <<>>, chunk.id)

\* the chunking loop of get_history_events
RECURSIVE SplitContent(_)
SplitContent(bytes) ==
    IF Len(bytes) = 0 THEN <<>>
    ELSE <<SubSeq(bytes, 1, IF MaxSingleMessageBytes < Len(bytes)
                            THEN MaxSingleMessageBytes ELSE Len(bytes))>>
         \o SplitContent(SubSeq(bytes, MaxSingleMessageBytes + 1, Len(bytes)))

\* the three events of one content block
ContentBlock(role, content) ==
    <<Token("contentStart", role, <<>>, 0), Token("textInput", role, content, 0),
      Token("contentEnd", role, <<>>, 0)>>

RECURSIVE ContentBlocks(_, _)
ContentBlocks(role, chunks) ==
    IF chunks = <<>> THEN <<>>
    ELSE ContentBlock(role, Head(chunks)) \o ContentBlocks(role, Tail(chunks))

\* ConversationHistory.get_history_events
RECURSIVE HistoryEvents(_)
HistoryEvents(msgs) ==
    IF msgs = <<>> THEN <<>>
    ELSE LET message == Head(msgs)
         IN  (IF Len(message.content) > MaxSingleMessageBytes
              THEN ContentBlocks(message.role, SplitContent(message.content))
              ELSE ContentBlock(message.role, message.content))
             \o HistoryEvents(Tail(msgs))

VARIABLES
    mgr,        \* the fields of the SessionTransitionManager
    sess,       \* the SessionInfo objects, by id
    info,       \* event-tracking fields of the current session
    mon,        \* the _monitor_events task
    hand,       \* the _send_history_and_start_audio invocations, by owner
    wd,         \* the _monitor_next_session_readiness task
    bg,         \* the _close_stream_in_background tasks, by session
    buffering_from, \* audio_chunk_count when is_buffering last became true
    owed_from,      \* the first chunk the last promotion's flush was to replay
    recorded_in_window \* the USER messages add_message has appended since
                       \* is_transitioning last became true

svars ==
    <<mgr, sess, info, mon, hand, wd, bg, buffering_from, owed_from,
      recorded_in_window>>

\* SessionTransitionManager.__init__
NewManager ==
    [current_session |-> None, next_session |-> None, session_counter |-> 0,
     audio_buffer |-> EmptyBuffer, is_buffering |-> FALSE,
     messages |-> <<>>,
     is_transitioning |-> FALSE, transition_ready |-> FALSE,
     waiting_for_audio_start |-> FALSE, waiting_for_completion |-> FALSE,
     user_was_speaking |-> FALSE, barge_in_occurred |-> FALSE,
     audio_chunk_count |-> 0, lock |-> "free"]

\* an invocation of _send_history_and_start_audio: history_events is the list
\* line 861 obtains, events what the loop of line 864 has still to send
IdleHand == [pc |-> "idle", history_events |-> <<>>, events |-> <<>>, old |-> None]
NoWatchdog == [pc |-> "none", sess |-> None, id |-> None, cancel |-> FALSE]
MonitorOff ==
    [pc |-> "off", ret |-> "none", id |-> None, session |-> None, taken |-> 0]

SessionStart ==
    /\ mgr = NewManager
    /\ sess = [id \in SessionIds |-> NoSessionInfo]
    /\ info = NewEventInfo
    /\ mon = MonitorOff
    /\ hand = [p \in Owners |-> IdleHand]
    /\ wd = NoWatchdog
    /\ bg = [id \in SessionIds |-> "none"]
    /\ buffering_from = 0
    /\ owed_from = 0
    /\ recorded_in_window = 0

ParserIdle ==
    /\ input = <<>>
    /\ fed = 0
    /\ nfrags = 0
    /\ parser = ResetParser
    /\ emitted = <<>>
    /\ ncalls = <<>>
    /\ cuts = <<>>
    /\ text_chunk = <<>>
    /\ parse_error = NoError

(***************************************************************************)
(* Part III.  NovaParsedEventStream, NovaResponseStreamHandler and         *)
(* NovaEventStream: the chunk router and its output queue                  *)
(*                                                                         *)
(* A chunk is [n, kind, text]: n is its place in the arrival order, kind   *)
(* what get_block finds in it, text the text of a text delta.  The         *)
(* producer calls add; the consumer iterates generate_stream, possibly in  *)
(* another thread (line 44 of nova_event_stream.py yields to it), so every *)
(* read or write of a field of the queue is a step of its own.  The        *)
(* handler's thinking_text_builder, which nothing reads, is left out.      *)
(***************************************************************************)

\* target_tag_name = None
NoTag == <<>>

\* the texts of the text deltas
RouterTexts == {target_start_tag, target_end_tag, <<"x">>}

\* the chunks add hands to the output as they are: messageStart, a
\* contentBlockDelta with toolUse input, a chunk of no kind add knows
\* (contentBlockStart, contentBlockStop), messageStop and metadata
PassedKinds ==
    {"messageStart", "toolUse", "contentBlockStart", "messageStop", "metadata"}

\* the chunks that may arrive n-th; kind "None" is the null reference
Chunks(n) ==
    {[n |-> n, kind |-> k, text |-> <<>>] : k \in PassedKinds \cup {"None"}}
        \cup {[n |-> n, kind |-> "text", text |-> t] : t \in RouterTexts}

\* NovaParsedEventStream.__init__ with the fields of the handler _parse creates
NewRouter ==
    [target_tag_name |-> NoTag, handler |-> FALSE, has_parser |-> FALSE,
     response_parser |-> ResetParser]

\* NovaEventStream.__init__; pc is the place of generate_stream
NewGenerator == [event_queue |-> <<>>, close_stream |-> FALSE, pc |-> "top"]

\* what a call of add does: the router afterwards, the chunks handed to
\* add_event, whether end_stream was called, and what was raised
Routed(r, out, close, raised) ==
    [router |-> r, out |-> out, close |-> close, raised |-> raised]

\* NovaResponseStreamHandler.on_start and on_end: a fresh parser
OnStart(r) == [r EXCEPT !.has_parser = TRUE, !.response_parser = ResetParser]

OnEnd(r) == [r EXCEPT !.has_parser = TRUE, !.response_parser = ResetParser]

\* NovaResponseStreamHandler._add
HandlerAdd(r, chunk) ==
    IF ~r.has_parser THEN Routed(r, <<>>, FALSE, "ValueError")
    ELSE Routed(r, <<chunk>>, FALSE, NoError)

\* _update_chunk_text_for_converse_stream and its invoke counterpart
UpdateChunkText(chunk, text) == [chunk EXCEPT !.text = text]

\* NovaResponseStreamHandler.on_chunk for a chunk that is not null
OnChunk(r, chunk) ==
    IF chunk.kind = "toolUse" THEN HandlerAdd(r, chunk)
    ELSE IF ~r.has_parser
    THEN Routed(r, <<>>, FALSE, "AttributeError")
    ELSE LET res == ProcessChunk(r.response_parser, chunk.text)
             r1 == [r EXCEPT !.response_parser = res.parser]
         IN  IF res.called THEN HandlerAdd(r1, UpdateChunkText(chunk, res.text))
             ELSE Routed(r1, <<>>, FALSE, NoError)

\* add with the metadata branch ending the stream without handing the chunk on
AddLosesMetadata(r, event) ==
    IF r.target_tag_name = NoTag THEN Routed(r, <<>>, FALSE, "ValueError")
    ELSE IF event.kind = "None" THEN Routed(r, <<>>, FALSE, "AttributeError")
    ELSE IF event.kind = "messageStart"
    THEN Routed(OnStart(r), <<event>>, FALSE, NoError)
    ELSE IF event.kind \in {"text", "toolUse"} THEN OnChunk(r, event)
    ELSE IF event.kind = "messageStop"
    THEN Routed(OnEnd(r), <<event>>, FALSE, NoError)
    ELSE IF event.kind = "metadata" THEN Routed(r, <<>>, TRUE, NoError)
    ELSE Routed(r, <<event>>, FALSE, NoError)

\* NovaParsedEventStream.add
Add(r, event) ==
    IF r.target_tag_name = NoTag THEN Routed(r, <<>>, FALSE, "ValueError")
    ELSE IF event.kind = "None" THEN Routed(r, <<>>, FALSE, "AttributeError")
    ELSE IF event.kind = "messageStart"
    THEN Routed(OnStart(r), <<event>>, FALSE, NoError)
    ELSE IF event.kind \in {"text", "toolUse"} THEN OnChunk(r, event)
    ELSE IF event.kind = "messageStop"
    THEN Routed(OnEnd(r), <<event>>, FALSE, NoError)
    ELSE IF event.kind = "metadata" THEN Routed(r, <<event>>, TRUE, NoError)
    ELSE Routed(r, <<event>>, FALSE, NoError)

\* deque.popleft
PopLeft(q) == [item |-> Head(q), rest |-> Tail(q)]

VARIABLES
    router,     \* the fields of NovaParsedEventStream and of its handler
    generator,  \* the fields of NovaEventStream and the place of generate_stream
    source,     \* "open" while the producer has chunks to route
    routed,     \* the chunks handed to add, in arrival order
    enqueued,   \* the chunks handed to add_event, in order
    yielded,    \* the chunks generate_stream has yielded, in order
    closed_at,  \* the number of chunks enqueued when end_stream was first called
    configured_at, \* the number of chunks routed when the tag name was set
    add_error   \* what the last call of add raised

rvars ==
    <<router, generator, source, routed, enqueued, yielded, closed_at,
      configured_at, add_error>>

RouterIdle ==
    /\ router = NewRouter
    /\ generator = NewGenerator
    /\ source = "open"
    /\ routed = <<>>
    /\ enqueued = <<>>
    /\ yielded = <<>>
    /\ closed_at = -1
    /\ configured_at = -1
    /\ add_error = NoError

(***************************************************************************)
(* Part IV.  AudioBuffer and ConversationHistory on their own              *)
(***************************************************************************)

\* the lengths of the chunks handed to add_chunk: up to one byte more than
\* the buffer holds
ChunkLens == 1..(MaxBufferSize + 1)

\* the per-message caps and the history caps a ConversationHistory is
\* configured with: the first per-message cap is shorter than the marker
SingleCaps == {MaxSingleMessageBytes - 4, MaxSingleMessageBytes}
TotalCaps == {MaxChatHistoryBytes, 2 * MaxChatHistoryBytes}

\* the lengths of the contents handed to add_message: a short one, and two
\* that are longer than every per-message cap
ContentLens == {2, MaxSingleMessageBytes + 1, MaxSingleMessageBytes + 4}

\* a content of n bytes
Content(n) == [i \in 1..n |-> "a"]

VARIABLES
    audio_buffer,   \* the fields of an AudioBuffer
    added,          \* the chunks handed to add_chunk since the last clear
    buffer_ops,     \* the number of calls of add_chunk and clear
    history,        \* the fields of a ConversationHistory
    offered,        \* the messages handed to add_message, as handed
    appended,       \* the messages add_message has appended, as stored
    result,         \* the dict the last call of add_message returned
    playback,       \* the current session's output-audio queue and the fields
                    \* the textOutput branch of _process_event reads and writes
    observed        \* what has been queued, played and pending at the texts

qvars == <<playback, observed>>

lvars ==
    <<audio_buffer, added, buffer_ops, history, offered, appended, result,
      qvars>>

NoResult == [truncated |-> FALSE, messages_removed |-> 0, total_bytes |-> 0]

BufferIdle ==
    /\ audio_buffer = EmptyBuffer
    /\ added = <<>>
    /\ buffer_ops = 0

HistoryIdle ==
    /\ history = NewHistory(MaxSingleMessageBytes, MaxChatHistoryBytes)
    /\ offered = <<>>
    /\ appended = <<>>
    /\ result = NoResult

\* a current session outside a transition, nothing queued
NewPlayback ==
    [is_transitioning |-> FALSE, waiting_for_completion |-> FALSE,
     user_was_speaking |-> FALSE, barge_in_occurred |-> FALSE,
     forced |-> FALSE, messages |-> <<>>,
     barge_in_detected |-> FALSE, speculative_text_count |-> 0,
     final_text_count |-> 0, audio_output_queue |-> <<>>]

\* pending is the set of chunks on the queue, and played the number of
\* chunks played, when the last text of the kind was processed
NotSeen == [seen |-> FALSE, pending |-> {}, played |-> 0]

NothingObserved ==
    [queued |-> 0, played |-> <<>>, speech |-> NotSeen, marker |-> NotSeen]

PlaybackIdle ==
    /\ playback = NewPlayback
    /\ observed = NothingObserved

Init ==
    /\ SessionStart /\ ParserIdle /\ RouterIdle /\ BufferIdle /\ HistoryIdle
    /\ PlaybackIdle

vars == <<pvars, svars, rvars, lvars>>

\* the number of chunks the cap of the buffer holds
BufferChunks == MaxBufferSize \div ChunkBytes

\* the first chunk a flush owes the next session when count chunks have
\* arrived: the first one since buffering began that the cap still holds
FirstOwed(from, count) ==
    IF count - BufferChunks > from THEN count - BufferChunks + 1 ELSE from + 1

\* a USER message has been appended to the history m holds
UserMessageAdded(m) ==
    /\ m.messages # mgr.messages
    /\ m.messages # <<>>
    /\ m.messages[Len(m.messages)].role = "USER"

\* every action of the manager assigns its variables through Step; the three
\* history variables record what the change of mgr shows
Step(m, ss, i, mo, h, w, b) ==
    /\ mgr' = m
    /\ sess' = ss
    /\ info' = i
    /\ mon' = mo
    /\ hand' = h
    /\ wd' = w
    /\ bg' = b
    /\ buffering_from' = IF m.is_buffering /\ ~mgr.is_buffering
                         THEN m.audio_chunk_count ELSE buffering_from
    /\ owed_from' = IF m.current_session # mgr.current_session
                     THEN FirstOwed(buffering_from, m.audio_chunk_count)
                     ELSE owed_from
    /\ recorded_in_window' =
           IF m.is_transitioning /\ ~mgr.is_transitioning THEN 0
           ELSE IF mgr.is_transitioning /\ UserMessageAdded(m)
                THEN recorded_in_window + 1
                ELSE recorded_in_window
    /\ UNCHANGED <<pvars, rvars, lvars>>

\* the monitor task has returned from _initiate_transition and is about to
\* poll the queue without having suspended: no other task runs in between
Committed == mon.pc = "poll"

\* ---- initialize_first_session -------------------------------------------

\* create_session counts the session before initialize_stream, which raises
\* when the stream cannot be opened
InitializeFirstSession(ok) ==
    /\ mon.pc = "off"
    /\ mgr.session_counter = 0
    /\ IF ok
       THEN Step([mgr EXCEPT !.session_counter = 1, !.current_session = 1],
                 [sess EXCEPT ![1] = NewSessionInfo], info,
                 [mon EXCEPT !.pc = "loop"], hand, wd, bg)
       ELSE Step([mgr EXCEPT !.session_counter = 1], sess, info, mon, hand, wd,
                 bg)

\* ---- add_audio_chunk ----------------------------------------------------

AddAudioChunk ==
    /\ mon.pc # "off"
    /\ ~Committed
    /\ mgr.audio_chunk_count < MaxChunks
    /\ LET n == mgr.audio_chunk_count + 1
           chunk == [id |-> n, len |-> ChunkBytes]
           cur == mgr.current_session
       IN  Step([mgr EXCEPT !.audio_chunk_count = n,
                            !.audio_buffer = IF mgr.is_buffering
                                             THEN AddChunk(@, chunk) ELSE @],
                IF cur # None /\ sess[cur].state = "active"
                THEN SendTo(sess, cur, Audio(chunk)) ELSE sess,
                info, mon, hand, wd, bg)

\* ---- _send_history_and_start_audio and _close_old_session_and_promote ----

\* what a piece of the handoff leaves behind: done is "no" while the
\* invocation is suspended at an await, "return" or "raise" when it is over
Outcome(m, ss, i, w, b, h, done) ==
    [m |-> m, ss |-> ss, i |-> i, w |-> w, b |-> b, h |-> h, done |-> done]

\* _send_buffered_audio_to_next_session
RECURSIVE SendBufferedAudio(_, _, _)
SendBufferedAudio(ss, id, chunks) ==
    IF chunks = <<>> THEN ss
    ELSE SendBufferedAudio(SendTo(ss, id, Audio(Head(chunks))), id, Tail(chunks))

\* C1 mutant: the swap empties the current slot instead of filling it
PromoteSlotsDropsCurrent(cur, nxt) ==
    [current_session |-> None, next_session |-> nxt]

\* lines 901-902: the slots after the swap
PromoteSlots(cur, nxt) == [current_session |-> nxt, next_session |-> None]

\* C4 mutant: the promotion resets the flags but never marks the old session
\* CLOSING nor schedules its background close
PromoteFinishNoClose(m, ss, i, w, b, old) ==
    [m |-> [m EXCEPT !.is_transitioning = FALSE, !.transition_ready = FALSE,
                     !.user_was_speaking = FALSE, !.barge_in_occurred = FALSE,
                     !.audio_buffer = EmptyBuffer, !.is_buffering = FALSE],
     ss |-> ss, i |-> i, w |-> w, b |-> b, h |-> IdleHand, done |-> "return"]

\* the promotion leaving the transition flags, the buffering flag and the
\* buffer as they are
PromoteFinishKeepsFlags(m, ss, i, w, b, old) ==
    [m |-> m, ss |-> [ss EXCEPT ![old].state = "closing"], i |-> i, w |-> w,
     b |-> [b EXCEPT ![old] = "pending"], h |-> IdleHand, done |-> "return"]

\* _close_old_session_and_promote from line 914 on, the watchdog task being over
PromoteFinish(m, ss, i, w, b, old) ==
    Outcome([m EXCEPT !.is_transitioning = FALSE, !.transition_ready = FALSE,
                      !.user_was_speaking = FALSE, !.barge_in_occurred = FALSE,
                      !.audio_buffer = EmptyBuffer, !.is_buffering = FALSE],
            [ss EXCEPT ![old].state = "closing"], i, w,
            [b EXCEPT ![old] = "pending"], IdleHand, "return")

\* lines 874-911, run when send_audio_content_start_event has returned
Promote(m, ss, i, w, b) ==
    IF m.next_session = None THEN Outcome(m, ss, i, w, b, IdleHand, "raise")
    ELSE LET nxt == m.next_session
             old == m.current_session
             ss1 == SendBufferedAudio(
                        [ss EXCEPT ![nxt].audio_content_started = TRUE],
                        nxt, m.audio_buffer.buffer)
             slots == PromoteSlots(old, nxt)
             m1 == [m EXCEPT !.current_session = slots.current_session,
                             !.next_session = slots.next_session]
         IN  IF old = None THEN Outcome(m, ss1, i, w, b, IdleHand, "return")
             ELSE IF w.pc # "none"
             THEN Outcome(m1, ss1, NewEventInfo, [w EXCEPT !.cancel = TRUE], b,
                          [IdleHand EXCEPT !.pc = "await", !.old = old], "no")
             ELSE PromoteFinish(m1, ss1, NewEventInfo, w, b, old)

\* lines 864-873: the next event of the history, or the audio start, goes to
\* whatever next_session is now
HandoffSend(m, ss, i, w, b, history_events, events) ==
    IF m.next_session = None THEN Outcome(m, ss, i, w, b, IdleHand, "raise")
    ELSE IF events # <<>>
    THEN Outcome(m, SendTo(ss, m.next_session, Head(events)), i, w, b,
                 [IdleHand EXCEPT !.pc = "hist", !.history_events = history_events,
                                  !.events = Tail(events)], "no")
    ELSE Outcome(m, SendTo(ss, m.next_session, Control("audioStart")), i, w, b,
                 [IdleHand EXCEPT !.pc = "audio", !.history_events = history_events],
                 "no")

\* the invocation going on to send without the test-and-clear of lines 845-847
HandoffLockedUnchecked(m, ss, i, w, b) ==
    HandoffSend([m EXCEPT !.waiting_for_completion = FALSE], ss, i, w, b,
                HistoryEvents(m.messages), HistoryEvents(m.messages))

\* lines 845-861, the lock being held by this invocation
HandoffLocked(m, ss, i, w, b) ==
    IF ~m.waiting_for_completion THEN Outcome(m, ss, i, w, b, IdleHand, "return")
    ELSE HandoffSend([m EXCEPT !.waiting_for_completion = FALSE], ss, i, w, b,
                     HistoryEvents(m.messages), HistoryEvents(m.messages))

\* lines 841-844
HandoffEnter(m, ss, i, w, b) ==
    IF m.next_session = None \/ ~m.waiting_for_completion
    THEN Outcome(m, ss, i, w, b, IdleHand, "return")
    ELSE IF m.lock # "free"
    THEN Outcome(m, ss, i, w, b, [IdleHand EXCEPT !.pc = "lock"], "no")
    ELSE HandoffLocked(m, ss, i, w, b)

\* _process_event lines 656-658 and the rest of the monitor's iteration,
\* when the handoff it awaits is over; an exception is caught at line 489
AfterHandoff(mo, r) ==
    [i |-> IF r.done = "return" /\ mo.ret = "end" /\ mo.session = r.m.current_session
           THEN [r.i EXCEPT !.current_generation_stage = "none"] ELSE r.i,
     mo |-> [mo EXCEPT !.pc = "loop", !.ret = "none", !.session = None]]

\* a piece of invocation p has run with outcome r; mo is the monitor task as
\* it stands while awaiting an inline invocation
HandoffStep(p, mo, r) ==
    LET h == [hand EXCEPT ![p] = IF r.done = "no" THEN r.h ELSE IdleHand]
    IN  IF p = Inline /\ r.done # "no"
        THEN Step(r.m, r.ss, AfterHandoff(mo, r).i, AfterHandoff(mo, r).mo, h,
                  r.w, r.b)
        ELSE Step(r.m, r.ss, r.i, mo, h, r.w, r.b)

\* the task line 583 created runs for the first time
HandoffForcedStart ==
    /\ hand[Forced].pc = "new"
    /\ ~Committed
    /\ HandoffStep(Forced, mon, HandoffEnter(mgr, sess, info, wd, bg))

\* the lock of line 844 is granted
HandoffLockAcquired(p) ==
    /\ hand[p].pc = "lock"
    /\ ~Committed
    /\ mgr.lock = "free"
    /\ HandoffStep(p, mon, HandoffLocked(mgr, sess, info, wd, bg))

\* send_raw_event and the sleep of line 866 are over
HandoffSendNext(p) ==
    /\ hand[p].pc = "hist"
    /\ ~Committed
    /\ HandoffStep(p, mon, HandoffSend(mgr, sess, info, wd, bg,
                                       hand[p].history_events, hand[p].events))

\* send_audio_content_start_event is over
HandoffPromote(p) ==
    /\ hand[p].pc = "audio"
    /\ ~Committed
    /\ HandoffStep(p, mon, Promote(mgr, sess, info, wd, bg))

\* the watchdog task awaited at line 911 is over
HandoffFinish(p) ==
    /\ hand[p].pc = "await"
    /\ ~Committed
    /\ wd.pc = "none"
    /\ HandoffStep(p, mon, PromoteFinish(mgr, sess, info, wd, bg, hand[p].old))

\* the transport raises in send_raw_event or send_audio_content_start_event:
\* lines 885-887 log and re-raise
HandoffSendFails(p) ==
    /\ hand[p].pc \in {"hist", "audio"}
    /\ ~Committed
    /\ HandoffStep(p, mon, Outcome(mgr, sess, info, wd, bg, IdleHand, "raise"))

\* ---- _monitor_events and _process_event ---------------------------------

\* the monitor task is at the sleep that ends an iteration (or committed to
\* the poll) and line 453 lets the iteration run; a task created at line 583
\* gets its first run before the monitor's sleep is over
MonitorRuns ==
    /\ mon.pc \in {"loop", "poll"}
    /\ hand[Forced].pc # "new"
    /\ mgr.current_session # None
    /\ sess[mgr.current_session].state # "closed"

\* the output queue of a stream yields events while the stream is open
EventArrives ==
    /\ MonitorRuns
    /\ sess[mgr.current_session].state = "active"
    /\ mon.taken < MaxEvents

\* the threshold check without the test of is_transitioning
ThresholdCheckWhileTransitioning(reached) ==
    IF mon.pc = "loop" /\ reached /\ ~mgr.waiting_for_audio_start
    THEN [mgr EXCEPT !.waiting_for_audio_start = TRUE]
    ELSE mgr

\* lines 457-465; reached is should_transition(threshold)
ThresholdCheck(reached) ==
    IF mon.pc = "loop" /\ reached /\ ~mgr.is_transitioning
       /\ ~mgr.waiting_for_audio_start
    THEN [mgr EXCEPT !.waiting_for_audio_start = TRUE]
    ELSE mgr

\* _initiate_transition lines 667-694, up to the await of create_session
InitiateTransition(m) ==
    IF m.is_transitioning THEN m
    ELSE [m EXCEPT !.is_transitioning = TRUE, !.waiting_for_audio_start = FALSE,
                   !.waiting_for_completion = TRUE,
                   !.session_counter = @ + 1]

\* the monitor task after a call of _initiate_transition from ret
Initiating(m, ret) ==
    IF m.is_transitioning
    THEN [mon EXCEPT !.pc = IF ret = "timeout" THEN "poll" ELSE "loop"]
    ELSE [mon EXCEPT !.pc = "create", !.ret = ret, !.id = m.session_counter + 1]

AtLoop == [mon EXCEPT !.pc = "loop", !.ret = "none", !.id = None, !.session = None]

\* the monitor task with one more event taken from the output queue
Taken(mo) == [mo EXCEPT !.taken = @ + 1]

\* lines 467-472: no AUDIO contentStart within audio_start_timeout of the
\* iteration that set waiting_for_audio_start
MonitorTimeout ==
    /\ MonitorRuns
    /\ mon.pc = "loop"
    /\ mgr.waiting_for_audio_start
    /\ mgr.lock = "free"
    /\ mgr.session_counter < MaxSessions
    /\ LET m1 == [mgr EXCEPT !.is_buffering = TRUE]
       IN  Step(InitiateTransition(m1), sess, info, Initiating(m1, "timeout"),
                hand, wd, bg)

\* an iteration that finds the output queue empty
MonitorNoEvent(reached) ==
    /\ MonitorRuns
    /\ Step(ThresholdCheck(reached), sess, info, AtLoop, hand, wd, bg)

\* contentStart, lines 505-534
MonitorContentStart(reached, cs) ==
    /\ EventArrives
    /\ LET m0 == ThresholdCheck(reached)
           role == cs.role
           type == cs.type
           stage == cs.stage
           i1 == [info EXCEPT !.current_generation_stage = stage]
       IN  IF m0.waiting_for_audio_start /\ type = "AUDIO" /\ role = "ASSISTANT"
           THEN /\ m0.lock = "free"
                /\ m0.session_counter < MaxSessions
                /\ LET m1 == [m0 EXCEPT !.is_buffering = TRUE]
                   IN  Step(InitiateTransition(m1), sess, i1,
                            Taken(Initiating(m1, "event")), hand, wd, bg)
           ELSE IF role = "USER" /\ m0.is_transitioning /\ m0.next_session # None
                   /\ sess[m0.next_session].received_completion_start
           THEN Step([m0 EXCEPT !.barge_in_occurred = TRUE], sess,
                     [i1 EXCEPT !.barge_in_detected = TRUE], Taken(AtLoop), hand, wd,
                     bg)
           ELSE Step(m0, sess, i1, Taken(AtLoop), hand, wd, bg)

\* completionStart, lines 536-545: only model_session_id, which names the
\* recording files, is set
MonitorCompletionStart(reached) ==
    /\ EventArrives
    /\ Step(ThresholdCheck(reached), sess, info, Taken(AtLoop), hand, wd, bg)

\* textOutput carrying the barge-in marker, lines 553-568 (line 596 then
\* keeps it out of the history)
MonitorInterruptedText(reached) ==
    /\ EventArrives
    /\ LET m0 == ThresholdCheck(reached)
       IN  Step(IF m0.is_transitioning
                THEN [m0 EXCEPT !.barge_in_occurred = TRUE] ELSE m0,
                sess, [info EXCEPT !.barge_in_detected = TRUE], Taken(AtLoop), hand,
                wd, bg)

\* textOutput with role USER completing the transition whatever the final-text
\* count of the current session is
MonitorUserTextAlwaysForces(reached) ==
    /\ EventArrives
    /\ LET m0 == ThresholdCheck(reached)
       IN  IF m0.is_transitioning
           THEN Step([m0 EXCEPT !.user_was_speaking = TRUE,
                                !.barge_in_occurred = TRUE],
                     sess, info, Taken(AtLoop),
                     IF m0.waiting_for_completion /\ hand[Forced].pc = "idle"
                     THEN [hand EXCEPT ![Forced].pc = "new"] ELSE hand,
                     wd, bg)
           ELSE Step([m0 EXCEPT !.messages = AddMessage(@, "USER", TextContent)],
                     sess,
                     IF info.barge_in_detected
                        /\ info.speculative_text_count > info.final_text_count
                     THEN [info EXCEPT !.final_text_count = info.speculative_text_count]
                     ELSE info,
                     Taken(AtLoop), hand, wd, bg)

\* textOutput with role USER, lines 571-609
MonitorUserText(reached) ==
    /\ EventArrives
    /\ LET m0 == ThresholdCheck(reached)
       IN  IF m0.is_transitioning
           THEN Step([m0 EXCEPT !.user_was_speaking = TRUE,
                                !.barge_in_occurred = TRUE],
                     sess, info, Taken(AtLoop),
                     IF info.final_text_count = 0 /\ m0.waiting_for_completion
                        /\ hand[Forced].pc = "idle"
                     THEN [hand EXCEPT ![Forced].pc = "new"] ELSE hand,
                     wd, bg)
           ELSE Step([m0 EXCEPT !.messages = AddMessage(@, "USER", TextContent)],
                     sess,
                     IF info.barge_in_detected
                        /\ info.speculative_text_count > info.final_text_count
                     THEN [info EXCEPT !.final_text_count = info.speculative_text_count]
                     ELSE info,
                     Taken(AtLoop), hand, wd, bg)

\* textOutput with role ASSISTANT, lines 621-643
MonitorAssistantText(reached) ==
    /\ EventArrives
    /\ hand[Inline].pc = "idle"
    /\ LET m0 == ThresholdCheck(reached)
           stage == info.current_generation_stage
       IN  CASE stage = "SPECULATIVE" ->
                  /\ info.speculative_text_count < MaxTexts
                  /\ Step(m0, sess, [info EXCEPT !.speculative_text_count = @ + 1],
                          Taken(AtLoop), hand, wd, bg)
             [] stage = "FINAL" ->
                  /\ info.final_text_count < MaxTexts
                  /\ LET i1 == [info EXCEPT !.final_text_count = @ + 1]
                         m1 == [m0 EXCEPT !.messages =
                                    AddMessage(@, "ASSISTANT", TextContent)]
                     IN  IF m1.waiting_for_completion
                            /\ i1.speculative_text_count > 0
                            /\ i1.final_text_count > 0
                            /\ i1.speculative_text_count = i1.final_text_count
                         THEN HandoffStep(Inline,
                                  [Taken(mon) EXCEPT !.pc = "handoff", !.ret = "final",
                                              !.session = m1.current_session],
                                  HandoffEnter(m1, sess, i1, wd, bg))
                         ELSE Step(m1, sess, i1, Taken(AtLoop), hand, wd, bg)
             [] OTHER -> Step(m0, sess, info, Taken(AtLoop), hand, wd, bg)

\* contentEnd, lines 645-658; interrupted is type TEXT with stopReason INTERRUPTED
MonitorContentEnd(reached, interrupted) ==
    /\ EventArrives
    /\ hand[Inline].pc = "idle"
    /\ LET m0 == ThresholdCheck(reached)
       IN  IF interrupted /\ m0.waiting_for_completion
           THEN HandoffStep(Inline,
                    [Taken(mon) EXCEPT !.pc = "handoff", !.ret = "end",
                                !.session = m0.current_session],
                    HandoffEnter(m0, sess, info, wd, bg))
           ELSE Step(m0, sess, [info EXCEPT !.current_generation_stage = "none"],
                     Taken(AtLoop), hand, wd, bg)

\* lines 716-736 of _initiate_transition: transition_ready, or the rollback
\* of the except branch
RollBackInitiate(m) ==
    [m EXCEPT !.is_transitioning = FALSE, !.transition_ready = FALSE,
              !.waiting_for_audio_start = FALSE, !.waiting_for_completion = FALSE,
              !.next_session = None]

\* create_session returns to line 694: lines 694-716, then the rest of the
\* monitor's iteration
MonitorCreateOk ==
    /\ mon.pc = "create"
    /\ Step([mgr EXCEPT !.next_session = mon.id, !.transition_ready = TRUE],
            [sess EXCEPT ![mon.id] = NewSessionInfo], info,
            IF mon.ret = "timeout" THEN [AtLoop EXCEPT !.pc = "poll"] ELSE AtLoop,
            hand, [NoWatchdog EXCEPT !.pc = "sleep", !.sess = mon.id], bg)

\* create_session raises at line 694: lines 718-736, and line 489 of the monitor
MonitorCreateFails ==
    /\ mon.pc = "create"
    /\ Step(RollBackInitiate(mgr), sess, info, AtLoop, hand, wd, bg)

\* ---- _monitor_next_session_readiness and _recreate_next_session ----------

\* _recreate_next_session lines 801-811, the close of the dead session being
\* over: give up, or take the lock and ask for a fresh session
AfterClose(m, w) ==
    IF ~m.is_transitioning \/ m.next_session # w.sess
    THEN [m |-> m, w |-> NoWatchdog]
    ELSE [m |-> [m EXCEPT !.lock = "watchdog", !.session_counter = @ + 1],
          w |-> [w EXCEPT !.pc = "create", !.id = m.session_counter + 1,
                          !.cancel = FALSE]]

\* one turn of the loop of lines 750-768 in which the session has waited
\* next_session_ready_timeout; line 782 and the call of line 785
WatchdogTimeout ==
    /\ wd.pc = "sleep"
    /\ ~wd.cancel
    /\ ~Committed
    /\ IF sess[wd.sess].received_completion_start \/ mgr.next_session # wd.sess
       THEN Step(mgr, sess, info, mon, hand, NoWatchdog, bg)
       ELSE Step(mgr,
                 SendTo([sess EXCEPT ![wd.sess].state = "closing"], wd.sess,
                        Control("promptEnd")),
                 info, mon, hand, [wd EXCEPT !.pc = "send1"], bg)

\* send_prompt_end_event is over (line 786 is called), or send_session_end_event
\* is over (the close of line 789 is called)
WatchdogSent ==
    /\ wd.pc \in {"send1", "send2"}
    /\ ~wd.cancel
    /\ ~Committed
    /\ IF wd.pc = "send1"
       THEN Step(mgr, SendTo(sess, wd.sess, Control("sessionEnd")), info, mon,
                 hand, [wd EXCEPT !.pc = "send2"], bg)
       ELSE Step(mgr, sess, info, mon, hand, [wd EXCEPT !.pc = "close"], bg)

\* a send of lines 785-786 raises: line 797 catches, the session stays CLOSING
WatchdogSendFails ==
    /\ wd.pc \in {"send1", "send2"}
    /\ ~wd.cancel
    /\ ~Committed
    /\ mgr.session_counter < MaxSessions
    /\ Step(AfterClose(mgr, wd).m, sess, info, mon, hand, AfterClose(mgr, wd).w,
            bg)

\* the close of line 789 is over, raised or timed out: line 795
WatchdogClosed ==
    /\ wd.pc = "close"
    /\ ~wd.cancel
    /\ ~Committed
    /\ mgr.session_counter < MaxSessions
    /\ Step(AfterClose(mgr, wd).m, [sess EXCEPT ![wd.sess].state = "closed"],
            info, mon, hand, AfterClose(mgr, wd).w, bg)

\* create_session returns to line 811; the task cancels and awaits itself
\* (lines 819-824, the CancelledError is swallowed) and starts its successor
WatchdogCreateOk ==
    /\ wd.pc = "create"
    /\ ~wd.cancel
    /\ ~Committed
    /\ Step([mgr EXCEPT !.next_session = wd.id, !.lock = "free"],
            [sess EXCEPT ![wd.id] = NewSessionInfo], info, mon, hand,
            [NoWatchdog EXCEPT !.pc = "sleep", !.sess = wd.id], bg)

\* create_session raises at line 811: lines 830-837, caught at line 773
WatchdogCreateFails ==
    /\ wd.pc = "create"
    /\ ~wd.cancel
    /\ ~Committed
    /\ Step([mgr EXCEPT !.is_transitioning = FALSE, !.transition_ready = FALSE,
                        !.waiting_for_completion = FALSE,
                        !.next_session = None, !.lock = "free"],
            sess, info, mon, hand, NoWatchdog, bg)

\* the CancelledError of a cancel() reaches the task at its await: it ends
\* the task, except at line 789 where the bare except swallows it
WatchdogCancelled ==
    /\ wd.pc # "none"
    /\ wd.cancel
    /\ ~Committed
    /\ IF wd.pc = "close"
       THEN /\ mgr.session_counter < MaxSessions
            /\ Step(AfterClose(mgr, wd).m,
                    [sess EXCEPT ![wd.sess].state = "closed"], info, mon, hand,
                    AfterClose(mgr, wd).w, bg)
       ELSE Step([mgr EXCEPT !.lock = "free"], sess, info, mon, hand,
                 NoWatchdog, bg)

\* ---- _close_stream_in_background ----------------------------------------

\* the task created at line 952 runs to its end: the three closing events
\* and the close of the input stream (a close that times out or raises is
\* logged), then line 979; nothing else touches a session that left the slots
BackgroundClose(id) ==
    /\ bg[id] = "pending"
    /\ ~Committed
    /\ Step(mgr,
            [SendTo(SendTo(SendTo(sess, id, Control("audioEnd")), id,
                           Control("promptEnd")), id, Control("sessionEnd"))
                EXCEPT ![id].state = "closed"],
            info, mon, hand, wd, [bg EXCEPT ![id] = "done"])

\* one of the sends of lines 962-964 raises: line 981, the session stays CLOSING
BackgroundFails(id) ==
    /\ bg[id] = "pending"
    /\ ~Committed
    /\ Step(mgr, sess, info, mon, hand, wd, [bg EXCEPT ![id] = "done"])

\* ---- specifications -----------------------------------------------------

\* the contentStart events of the service: role, type and the generationStage
\* of additionalModelFields
ContentStart(role, type, stage) == [role |-> role, type |-> type, stage |-> stage]
ContentStarts ==
    {ContentStart("USER", "AUDIO", "none"), ContentStart("USER", "TEXT", "none"),
     ContentStart("ASSISTANT", "AUDIO", "none"),
     ContentStart("ASSISTANT", "TEXT", "SPECULATIVE"),
     ContentStart("ASSISTANT", "TEXT", "FINAL")}

Next ==
    \/ \E ok \in BOOLEAN : InitializeFirstSession(ok)
    \/ AddAudioChunk
    \/ MonitorTimeout
    \/ \E reached \in BOOLEAN : MonitorNoEvent(reached)
    \/ \E reached \in BOOLEAN, cs \in ContentStarts : MonitorContentStart(reached, cs)
    \/ \E reached \in BOOLEAN : MonitorCompletionStart(reached)
    \/ \E reached \in BOOLEAN : MonitorInterruptedText(reached)
    \/ \E reached \in BOOLEAN : MonitorUserText(reached)
    \/ \E reached \in BOOLEAN : MonitorAssistantText(reached)
    \/ \E reached, interrupted \in BOOLEAN : MonitorContentEnd(reached, interrupted)
    \/ MonitorCreateOk
    \/ MonitorCreateFails
    \/ HandoffForcedStart
    \/ \E p \in Owners : HandoffLockAcquired(p)
    \/ \E p \in Owners : HandoffSendNext(p)
    \/ \E p \in Owners : HandoffPromote(p)
    \/ \E p \in Owners : HandoffFinish(p)
    \/ \E p \in Owners : HandoffSendFails(p)
    \/ WatchdogTimeout
    \/ WatchdogSent
    \/ WatchdogSendFails
    \/ WatchdogClosed
    \/ WatchdogCreateOk
    \/ WatchdogCreateFails
    \/ WatchdogCancelled
    \/ \E id \in SessionIds : BackgroundClose(id)
    \/ \E id \in SessionIds : BackgroundFails(id)

Spec == Init /\ [][Next]_vars

\* The fault-free run: every stream opens, every send returns, a next session
\* is handed over before next_session_ready_timeout, and the current session
\* emits assistant events only.
AssistantContentStarts == {cs \in ContentStarts : cs.role = "ASSISTANT"}

E2ENext ==
    \/ InitializeFirstSession(TRUE)
    \/ AddAudioChunk
    \/ \E reached \in BOOLEAN : MonitorNoEvent(reached)
    \/ \E reached \in BOOLEAN, cs \in AssistantContentStarts :
           MonitorContentStart(reached, cs)
    \/ \E reached \in BOOLEAN : MonitorCompletionStart(reached)
    \/ \E reached \in BOOLEAN : MonitorAssistantText(reached)
    \/ \E reached \in BOOLEAN : MonitorContentEnd(reached, FALSE)
    \/ MonitorCreateOk
    \/ HandoffSendNext(Inline)
    \/ HandoffPromote(Inline)
    \/ HandoffFinish(Inline)
    \/ WatchdogCancelled
    \/ \E id \in SessionIds : BackgroundClose(id)

\* asyncio runs every task that is ready: a send that does not fail returns, a
\* cancelled task gets its CancelledError, a created task runs
E2EFairness ==
    /\ WF_vars(MonitorCreateOk)
    /\ WF_vars(HandoffSendNext(Inline))
    /\ WF_vars(HandoffPromote(Inline))
    /\ WF_vars(HandoffFinish(Inline))
    /\ WF_vars(WatchdogCancelled)
    /\ WF_vars(\E id \in SessionIds : BackgroundClose(id))

E2ESpec == Init /\ [][E2ENext]_vars /\ E2EFairness

\* The service acknowledges the next session before next_session_ready_timeout
\* has elapsed: its completionStart is put on the output queue of the session's
\* stream manager.  _monitor_events polls the queue of the current session only
\* (lines 474-482), so nothing of the manager runs on this event.
ServiceAcknowledges ==
    /\ wd.pc = "sleep"
    /\ ~wd.cancel
    /\ ~Committed
    /\ mgr.next_session = wd.sess
    /\ ~sess[wd.sess].completion_start_arrived
    /\ Step(mgr, [sess EXCEPT ![wd.sess].completion_start_arrived = TRUE], info,
            mon, hand, wd, bg)

\* The readiness watchdog at work: every stream opens and every send returns,
\* the current session emits assistant events only, and the service may
\* acknowledge a next session in time.
WatchdogNext ==
    \/ InitializeFirstSession(TRUE)
    \/ \E reached \in BOOLEAN : MonitorNoEvent(reached)
    \/ \E reached \in BOOLEAN, cs \in AssistantContentStarts :
           MonitorContentStart(reached, cs)
    \/ \E reached \in BOOLEAN : MonitorAssistantText(reached)
    \/ \E reached, interrupted \in BOOLEAN : MonitorContentEnd(reached, interrupted)
    \/ MonitorCreateOk
    \/ HandoffSendNext(Inline)
    \/ HandoffPromote(Inline)
    \/ HandoffFinish(Inline)
    \/ ServiceAcknowledges
    \/ WatchdogTimeout
    \/ WatchdogSent
    \/ WatchdogClosed
    \/ WatchdogCreateOk
    \/ WatchdogCancelled
    \/ \E id \in SessionIds : BackgroundClose(id)

WatchdogSpec == Init /\ [][WatchdogNext]_vars

ParserInit ==
    /\ input \in Texts(MaxPieces)
    /\ fed = 0
    /\ nfrags = 0
    /\ parser = ResetParser
    /\ emitted = <<>>
    /\ ncalls = <<>>
    /\ cuts = <<>>
    /\ text_chunk = <<>>
    /\ parse_error = NoError
    /\ SessionStart
    /\ RouterIdle
    /\ BufferIdle
    /\ HistoryIdle
    /\ PlaybackIdle

\* the caller feeds the next fragment input[fed+1 .. fed+n] to process_chunk
Feed ==
    /\ nfrags < MaxFrags
    /\ \E n \in 1..(Len(input) - fed) :
         LET r == ProcessChunk(parser, SubSeq(input, fed + 1, fed + n))
         IN  /\ parser' = r.parser
             /\ emitted' = emitted \o r.text
             /\ ncalls' = Append(ncalls, r.called)
             /\ fed' = fed + n
             /\ cuts' = Append(cuts, fed + n)
             /\ text_chunk' = SubSeq(input, fed + 1, fed + n)
    /\ nfrags' = nfrags + 1
    /\ parse_error' = NoError
    /\ UNCHANGED <<input, svars, rvars, lvars>>

ParserNext == Feed

ParserSpec == ParserInit /\ [][ParserNext]_vars

\* the caller hands process_chunk a fragment that holds no character: the
\* null reference or the empty string
FeedNothing(fragment) ==
    /\ nfrags < MaxFrags
    /\ LET r == ProcessChunkCall(parser, fragment)
       IN  /\ parser' = r.parser
           /\ emitted' = emitted \o r.text
           /\ ncalls' = Append(ncalls, r.called)
           /\ parse_error' = r.raised
    /\ text_chunk' = fragment
    /\ cuts' = Append(cuts, fed)
    /\ nfrags' = nfrags + 1
    /\ UNCHANGED <<input, fed, svars, rvars, lvars>>

FeedNull == FeedNothing(NoText)

FeedEmpty == FeedNothing(<<>>)

FragmentNext == Feed \/ FeedNull \/ FeedEmpty

FragmentSpec == ParserInit /\ [][FragmentNext]_vars

\* ---- the router and its queue ---------------------------------------------

\* parse_converse_stream / parse_invoke_model_with_response_stream: _parse
Parse(tag) ==
    /\ ~router.handler
    /\ router' = [router EXCEPT !.target_tag_name = tag, !.handler = TRUE]
    /\ configured_at' = IF tag # NoTag THEN Len(routed) ELSE configured_at
    /\ UNCHANGED <<generator, source, routed, enqueued, yielded, closed_at,
                   add_error, pvars, svars, lvars>>

\* the producer hands the next chunk to add
Route(event) ==
    /\ source = "open"
    /\ Len(routed) < MaxRouted
    /\ LET r == Add(router, event)
       IN  /\ router' = r.router
           /\ generator' = [generator EXCEPT
                               !.event_queue = @ \o r.out,
                               !.close_stream = @ \/ r.close]
           /\ enqueued' = enqueued \o r.out
           /\ closed_at' = IF r.close /\ closed_at < 0
                            THEN Len(enqueued \o r.out) ELSE closed_at
           /\ add_error' = r.raised
    /\ routed' = Append(routed, event)
    /\ UNCHANGED <<source, yielded, configured_at, pvars, svars, lvars>>

\* the producer has no more chunks: the loop over the original stream is over
SourceEnds ==
    /\ source = "open"
    /\ source' = "ended"
    /\ UNCHANGED <<router, generator, routed, enqueued, yielded, closed_at,
                   configured_at, add_error, pvars, svars, lvars>>

\* generate_stream lines 37-41: take the oldest chunk and yield it
GenTake ==
    /\ router.handler
    /\ generator.pc = "top"
    /\ IF generator.event_queue # <<>>
       THEN /\ generator' = [generator EXCEPT
                               !.event_queue = PopLeft(@).rest, !.pc = "check"]
            /\ yielded' = Append(yielded, PopLeft(generator.event_queue).item)
       ELSE /\ generator' = [generator EXCEPT !.pc = "check"]
            /\ yielded' = yielded
    /\ UNCHANGED <<router, source, routed, enqueued, closed_at, configured_at,
                   add_error, pvars, svars, lvars>>

\* lines 44-46: after the sleep, the read of event_queue; a queue that is
\* not empty ends the test
GenCheckQueue ==
    /\ generator.pc = "check"
    /\ generator' = [generator EXCEPT
                       !.pc = IF generator.event_queue = <<>> THEN "close" ELSE "top"]
    /\ UNCHANGED <<router, source, routed, enqueued, yielded, closed_at,
                   configured_at, add_error, pvars, svars, lvars>>

\* line 46: the read of close_stream, and the break of line 47
GenCheckClose ==
    /\ generator.pc = "close"
    /\ generator' = [generator EXCEPT
                       !.pc = IF generator.close_stream THEN "done" ELSE "top"]
    /\ UNCHANGED <<router, source, routed, enqueued, yielded, closed_at,
                   configured_at, add_error, pvars, svars, lvars>>

RouterNext ==
    \/ \E tag \in {NoTag, target_tag_name} : Parse(tag)
    \/ \E event \in Chunks(Len(routed) + 1) : Route(event)
    \/ SourceEnds
    \/ GenTake
    \/ GenCheckQueue
    \/ GenCheckClose

\* the consumer keeps asking generate_stream for the next chunk
RouterFairness ==
    /\ WF_vars(GenTake)
    /\ WF_vars(GenCheckQueue)
    /\ WF_vars(GenCheckClose)

RouterSpec == Init /\ [][RouterNext]_vars /\ RouterFairness

\* ---- AudioBuffer and ConversationHistory on their own ----------------------

\* AudioBuffer.add_chunk with a chunk of len bytes
BufferAddChunk(len) ==
    /\ buffer_ops < MaxBufferOps
    /\ LET chunk == [id |-> buffer_ops + 1, len |-> len]
       IN  /\ audio_buffer' = AddChunk(audio_buffer, chunk)
           /\ added' = Append(added, chunk)
    /\ buffer_ops' = buffer_ops + 1
    /\ UNCHANGED <<history, offered, appended, result, qvars, pvars, svars,
                   rvars>>

\* AudioBuffer.clear
BufferClear ==
    /\ buffer_ops < MaxBufferOps
    /\ audio_buffer' = EmptyBuffer
    /\ added' = <<>>
    /\ buffer_ops' = buffer_ops + 1
    /\ UNCHANGED <<history, offered, appended, result, qvars, pvars, svars,
                   rvars>>

BufferNext == (\E len \in ChunkLens : BufferAddChunk(len)) \/ BufferClear

BufferSpec == Init /\ [][BufferNext]_vars

\* a ConversationHistory configured with any of the caps
HistoryInit ==
    /\ SessionStart /\ ParserIdle /\ RouterIdle /\ BufferIdle /\ PlaybackIdle
    /\ history \in {NewHistory(s, t) : s \in SingleCaps, t \in TotalCaps}
    /\ offered = <<>>
    /\ appended = <<>>
    /\ result = NoResult

\* ConversationHistory.add_message
HistoryAddMessage(role, content) ==
    /\ Len(offered) < MaxMessages
    /\ LET r == AddMessageTo(history, role, content)
       IN  /\ history' = r.history
           /\ result' = r.result
           /\ appended' = Append(appended,
                                [role |-> role,
                                 content |-> StoredContent(content,
                                                 history.max_single_message_bytes)])
    /\ offered' = Append(offered, [role |-> role, content |-> content])
    /\ UNCHANGED <<audio_buffer, added, buffer_ops, qvars, pvars, svars, rvars>>

HistoryNext ==
    \E role \in {"USER", "ASSISTANT"}, n \in ContentLens :
        HistoryAddMessage(role, Content(n))

HistorySpec == HistoryInit /\ [][HistoryNext]_vars

\* ---- the textOutput branch and the output-audio queue on their own --------

\* the text the service reports when the user interrupts the assistant
InterruptedMarker == <<"{", "i", "}">>

\* the texts handed to the textOutput branch here: the user's, and the marker
PlaybackTexts == {[role |-> "USER", content |-> TextContent],
                  [role |-> "ASSISTANT", content |-> InterruptedMarker]}

\* the textOutput branch with the barge-in marker left on the queue
TextOutputKeepsQueue(p, role, content) ==
    IF content = InterruptedMarker
    THEN [p EXCEPT !.barge_in_detected = TRUE,
                   !.barge_in_occurred = @ \/ p.is_transitioning]
    ELSE IF role = "USER" /\ p.is_transitioning
    THEN [p EXCEPT !.user_was_speaking = TRUE, !.barge_in_occurred = TRUE,
                   !.forced = @ \/ (p.final_text_count = 0
                                     /\ p.waiting_for_completion)]
    ELSE IF role = "USER"
    THEN [p EXCEPT !.messages = AddMessage(@, "USER", content),
                   !.final_text_count =
                       IF p.barge_in_detected /\ p.speculative_text_count > @
                       THEN p.speculative_text_count ELSE @]
    ELSE p

\* _process_event on a textOutput of the current session, lines 548-609:
\* the marker (553-568; line 596 keeps it out of the history and the
\* counters), a user text in a transition (571-583, forced stands for the
\* task of line 583; lines 589-596 keep it out of the history) and a user
\* text outside one (597-609)
TextOutput(p, role, content) ==
    IF content = InterruptedMarker
    THEN [p EXCEPT !.barge_in_detected = TRUE,
                   !.audio_output_queue = <<>>,
                   !.barge_in_occurred = @ \/ p.is_transitioning]
    ELSE IF role = "USER" /\ p.is_transitioning
    THEN [p EXCEPT !.user_was_speaking = TRUE, !.barge_in_occurred = TRUE,
                   !.forced = @ \/ (p.final_text_count = 0
                                     /\ p.waiting_for_completion)]
    ELSE IF role = "USER"
    THEN [p EXCEPT !.messages = AddMessage(@, "USER", content),
                   !.final_text_count =
                       IF p.barge_in_detected /\ p.speculative_text_count > @
                       THEN p.speculative_text_count ELSE @]
    ELSE p

\* the states the manager and its current session can be in when a text
\* arrives: waiting_for_completion only in a transition, no more FINAL than
\* SPECULATIVE texts counted
PlaybackInit ==
    /\ SessionStart /\ ParserIdle /\ RouterIdle /\ BufferIdle /\ HistoryIdle
    /\ observed = NothingObserved
    /\ \E t \in BOOLEAN, w \in BOOLEAN, sp \in 0..MaxTexts, fi \in 0..MaxTexts :
          /\ w => t
          /\ fi <= sp
          /\ playback = [NewPlayback EXCEPT !.is_transitioning = t,
                                           !.waiting_for_completion = w,
                                           !.speculative_text_count = sp,
                                           !.final_text_count = fi]

\* the stream manager of the current session puts an audio chunk of the
\* response on its audio_output_queue
OutputAudioArrives ==
    /\ observed.queued < MaxOutputChunks
    /\ playback' = [playback EXCEPT !.audio_output_queue =
                                        Append(@, observed.queued + 1)]
    /\ observed' = [observed EXCEPT !.queued = @ + 1]
    /\ UNCHANGED <<audio_buffer, added, buffer_ops, history, offered, appended,
                   result, pvars, svars, rvars>>

\* get_output_audio returning a chunk of the current session, lines 1149-1157
\* (the branch of line 1121 needs received_completion_start)
GetOutputAudio ==
    /\ playback.audio_output_queue # <<>>
    /\ playback' = [playback EXCEPT !.audio_output_queue = Tail(@)]
    /\ observed' = [observed EXCEPT !.played =
                                        Append(@, Head(playback.audio_output_queue))]
    /\ UNCHANGED <<audio_buffer, added, buffer_ops, history, offered, appended,
                   result, pvars, svars, rvars>>

\* what the queue held and how much had been played when a text arrives
TextSeen ==
    [seen |-> TRUE,
     pending |-> {playback.audio_output_queue[k] :
                      k \in 1..Len(playback.audio_output_queue)},
     played |-> Len(observed.played)]

\* the monitor hands a textOutput of the current session to _process_event
ProcessTextOutput(text) ==
    /\ playback' = TextOutput(playback, text.role, text.content)
    /\ observed' = IF text.content = InterruptedMarker
                   THEN [observed EXCEPT !.marker = TextSeen]
                   ELSE IF playback.is_transitioning
                        THEN [observed EXCEPT !.speech = TextSeen]
                        ELSE observed
    /\ UNCHANGED <<audio_buffer, added, buffer_ops, history, offered, appended,
                   result, pvars, svars, rvars>>

PlaybackNext ==
    \/ OutputAudioArrives
    \/ GetOutputAudio
    \/ \E text \in PlaybackTexts : ProcessTextOutput(text)

PlaybackSpec == PlaybackInit /\ [][PlaybackNext]_vars

(***************************************************************************)
(* Properties of the parser.                                               *)
(***************************************************************************)

\* the whole input has been fed
AllFed == fed = Len(input)

\* number of complete <name>...</name> spans of a text, found as re.sub finds them
RECURSIVE SpanCount(_)
SpanCount(text) ==
    LET starts == Occurrences(text, target_start_tag, 1)
    IN  IF starts = {} THEN 0
        ELSE LET s == Min(starts)
                 ends == Occurrences(text, target_end_tag, s + Len(target_start_tag))
             IN  IF ends = {} THEN 0
                 ELSE 1 + SpanCount(SubSeq(text, Min(ends) + Len(target_end_tag), Len(text)))

\* first and last index of the first complete span of a text that has one
SpanFirst(text) == Min(Occurrences(text, target_start_tag, 1))
SpanLast(text) ==
    Min(Occurrences(text, target_end_tag, SpanFirst(text) + Len(target_start_tag)))
        + Len(target_end_tag) - 1

\* the fragments fed so far that hold a character of the first span
SpanFrags ==
    {k \in 1..Len(cuts) :
        /\ cuts[k] >= SpanFirst(input)
        /\ (IF k = 1 THEN 1 ELSE cuts[k - 1] + 1) <= SpanLast(input)}

\* positions of a text that lie strictly between a start delimiter and its
\* matching end delimiter
RECURSIVE TaggedPositions(_, _)
TaggedPositions(text, offset) ==
    LET starts == Occurrences(text, target_start_tag, 1)
    IN  IF starts = {} THEN {}
        ELSE LET s == Min(starts)
                 ends == Occurrences(text, target_end_tag, s + Len(target_start_tag))
             IN  IF ends = {} THEN {}
                 ELSE LET e == Min(ends)
                      IN  {offset + i : i \in (s + Len(target_start_tag))..(e - 1)}
                          \cup TaggedPositions(
                                  SubSeq(text, e + Len(target_end_tag), Len(text)),
                                  offset + e + Len(target_end_tag) - 1)

\* every ordinary character of the input is tagged content
OnlyTaggedContent ==
    \A i \in 1..Len(input) : input[i] = "x" => i \in TaggedPositions(input, 0)

\* C7: identity pass-through. When the fed text never contains the start
\* delimiter, the texts handed to the callback concatenate to the text fed.
C7_IdentityPassThrough ==
    (AllFed /\ ~Contains(input, target_start_tag)) => emitted = input

\* C8: a text with exactly one complete span is emitted with the span cut out,
\* and the callback fires exactly once over the fragments that hold the span.
C8_SingleSpanExcised ==
    (AllFed /\ SpanCount(input) = 1) =>
        /\ emitted = RemoveTagsFrom(input)
        /\ Cardinality({k \in SpanFrags : ncalls[k]}) = 1

\* C9: split-token robustness. For a text with one complete span the emitted
\* text is what feeding the text as a single fragment emits, wherever the cuts
\* fall.
C9_CutIndependent ==
    (AllFed /\ SpanCount(input) = 1) =>
        emitted = ProcessChunk(ResetParser, input).text

\* C10: no tagged content is emitted. When every ordinary character of the
\* input lies between a start delimiter and its matching end delimiter, no
\* ordinary character is ever handed to the callback.
C10_NoTaggedContentEmitted ==
    OnlyTaggedContent => \A i \in 1..Len(emitted) : emitted[i] # "x"


PrefixOf(a, b) == Len(a) <= Len(b) /\ SubSeq(b, 1, Len(a)) = a

\* the part of a text from its last '<' on (empty when it has none)
FromLastOpen(text) ==
    LET opens == {i \in 1..Len(text) : text[i] = "<"}
    IN  IF opens = {} THEN <<>>
        ELSE SubSeq(text, CHOOSE i \in opens : \A k \in opens : k <= i, Len(text))

\* the text may still become a delimiter: it ends in the beginning of one
MayBecomeDelimiter(text) ==
    /\ FromLastOpen(text) # <<>>
    /\ \/ PrefixOf(FromLastOpen(text), target_start_tag)
       \/ PrefixOf(FromLastOpen(text), target_end_tag)

\* C12: nothing is withheld without cause. Whenever a call of process_chunk
\* has returned without invoking the callback and text stays accumulated,
\* either a span has been opened by a start delimiter or the text ends in the
\* beginning of a delimiter; a '<' whose followers can no longer form a
\* delimiter does not keep text back.
C12_NothingWithheldWithoutCause ==
    parser.text_chunks # <<>> =>
        \/ Contains(parser.text_chunks, target_start_tag)
        \/ MayBecomeDelimiter(parser.text_chunks)

(***************************************************************************)
(* Properties of the router and its queue.                                 *)
(***************************************************************************)

\* the k-th chunk was handed to add after the tag name had been configured
RoutedConfigured(k) == configured_at >= 0 /\ k > configured_at

\* the chunks in the output keep the arrival order, none appears twice
InArrivalOrder ==
    \A i, j \in 1..Len(enqueued) : i < j => enqueued[i].n < enqueued[j].n

\* every chunk in the output is the chunk that arrived, a text delta possibly
\* with another text
OnlyTextRewritten ==
    \A i \in 1..Len(enqueued) :
        LET e == enqueued[i]
        IN  IF e.kind = "text"
            THEN [routed[e.n] EXCEPT !.text = e.text] = e
            ELSE routed[e.n] = e

IsEnqueued(chunk) == \E i \in 1..Len(enqueued) : enqueued[i] = chunk

\* a start-of-message or end-of-message chunk was routed, the tag name being
\* configured, before the k-th chunk
MessageSeenBefore(k) ==
    \E j \in 1..(k - 1) :
        RoutedConfigured(j) /\ routed[j].kind \in {"messageStart", "messageStop"}

\* C13: the router is order-preserving and lossless for non-text chunks.
\* Every start-of-message, end-of-message, metadata and tool-use delta chunk
\* handed to a configured router is in the output, once and unchanged; text
\* deltas are in the output only with their text rewritten; the output keeps
\* the arrival order.
C13_RouterLossless ==
    /\ InArrivalOrder
    /\ OnlyTextRewritten
    /\ \A k \in 1..Len(routed) :
          (RoutedConfigured(k) /\ routed[k].kind \in PassedKinds)
              => IsEnqueued(routed[k])

\* C13 as amended: a tool-use delta is passed on only once a start-of-message
\* or end-of-message chunk has been routed; before that it is rejected and is
\* not in the output. Every start-of-message, end-of-message, metadata and
\* other non-delta chunk handed to a configured router is in the output, once
\* and unchanged, text deltas only with their text rewritten, all in arrival
\* order.
C13_RouterLosslessAfterStart ==
    /\ InArrivalOrder
    /\ OnlyTextRewritten
    /\ \A k \in 1..Len(routed) :
          (RoutedConfigured(k) /\ routed[k].kind \in PassedKinds)
              => IF routed[k].kind = "toolUse"
                 THEN IsEnqueued(routed[k]) <=> MessageSeenBefore(k)
                 ELSE IsEnqueued(routed[k])

\* C13 witness: a text delta was withheld, a tool-use delta passed it, and a
\* later text delta went out with its text rewritten
C13_Witness ==
    /\ Len(routed) = 4
    /\ routed[2].kind = "text" /\ ~(\E i \in 1..Len(enqueued) : enqueued[i].n = 2)
    /\ routed[3].kind = "toolUse" /\ IsEnqueued(routed[3])
    /\ \E i \in 1..Len(enqueued) :
          enqueued[i].n = 4 /\ enqueued[i].kind = "text"
              /\ enqueued[i].text # routed[4].text

\* C14: routing before a target tag name is configured, and routing the null
\* reference, fail with ValueError, hand nothing to the output and leave the
\* router as it was.
C14_RejectedUnchanged ==
    [][(routed' # routed /\
          (router.target_tag_name = NoTag \/ routed'[Len(routed')].kind = "None"))
         => /\ add_error' = "ValueError"
            /\ enqueued' = enqueued
            /\ router' = router
            /\ generator' = generator]_vars

\* C15: the queue is FIFO and drops nothing. What has been yielded, followed
\* by what is still queued, is always what was enqueued, and generate_stream
\* ends only when every chunk enqueued so far has been yielded.
C15_QueueFifoNoDrop ==
    /\ [](yielded \o generator.event_queue = enqueued)
    /\ [][(generator.pc # "done" /\ generator'.pc = "done")
             => yielded' = enqueued']_vars

\* C16: the consumer's iteration terminates. Once the producer has routed its
\* last chunk, generate_stream eventually ends.
C16_IterationTerminates ==
    (source = "ended" /\ router.handler) ~> (generator.pc = "done")

(***************************************************************************)
(* Properties of AudioBuffer and ConversationHistory.                      *)
(***************************************************************************)

RECURSIVE SumLens(_)
SumLens(chunks) ==
    IF chunks = <<>> THEN 0 ELSE Head(chunks).len + SumLens(Tail(chunks))

\* part is what is left of whole when some of its first elements are removed
SuffixOf(part, whole) ==
    /\ Len(part) <= Len(whole)
    /\ part = SubSeq(whole, Len(whole) - Len(part) + 1, Len(whole))

\* C17: after any sequence of add_chunk and clear, total_size is at most
\* max_buffer_size and is the sum of the lengths of the retained chunks, and
\* the retained chunks are the most recently added ones, in order, of those
\* added since the last clear; also when a chunk is larger than the cap.
C17_BufferWithinCap ==
    /\ audio_buffer.total_size <= MaxBufferSize
    /\ audio_buffer.total_size = SumLens(audio_buffer.buffer)
    /\ SuffixOf(audio_buffer.buffer, added)

\* C17 witness: a chunk larger than the cap was added to a buffer that held
\* chunks, and nothing is retained
C17_Witness ==
    /\ Len(added) >= 2
    /\ added[Len(added)].len > MaxBufferSize
    /\ added[Len(added) - 1].len <= MaxBufferSize
    /\ audio_buffer.buffer = <<>>

\* C18: after any sequence of add_message, the total size of the stored
\* messages is at most max_chat_history_bytes, the stored messages are the
\* most recently added ones, and every stored content is at most
\* max_single_message_bytes long: a content that exceeded that cap is stored
\* cut and ending in the truncation marker, any other as it was handed in.
C18_HistoryWithinCaps ==
    /\ TotalSizeBytes(history.messages) <= history.max_chat_history_bytes
    /\ SuffixOf(history.messages, appended)
    /\ \A i \in 1..Len(appended) :
          /\ appended[i].role = offered[i].role
          /\ Len(appended[i].content) <= history.max_single_message_bytes
          /\ IF Len(offered[i].content) > history.max_single_message_bytes
             THEN SuffixOf(TruncationMarker, appended[i].content)
             ELSE appended[i].content = offered[i].content

\* C19: add_message returns in messages_removed the number of old messages
\* the call evicted and in total_bytes the size of the history afterwards.
\* The old messages were the ones stored before the call; those of them that
\* are not stored afterwards are the ones evicted.
C19_RemovedCountReturned ==
    [][offered' # offered =>
          /\ result'.total_bytes = TotalSizeBytes(history'.messages)
          /\ result'.messages_removed =
                IF history'.messages = <<>> THEN Len(history.messages)
                ELSE Len(history.messages) + 1 - Len(history'.messages)]_vars

(***************************************************************************)
(* Properties of the session manager.                                      *)
(***************************************************************************)

\* initialize_first_session has completed
Initialized == mon.pc # "off"

\* the current session got there by a promotion (the first session has id 1)
Promoted == mgr.current_session > 1

\* C1: once initialize_first_session has completed, current_session is never
\* null, whatever the monitor, the watchdog, the handoff, the background close
\* and failing session creations do.
C1_CurrentNeverNull == Initialized => mgr.current_session # None

\* C1 witness: a promotion has run, after a session creation that failed, and
\* the background close of an old session is over
C1_Witness ==
    /\ Initialized
    /\ Promoted
    /\ \E id \in SessionIds : id < mgr.current_session /\ sess[id].state = "absent"
    /\ \E id \in SessionIds : bg[id] = "done"

\* C2: a next session is promoted only after its acknowledgment
\* (received_completion_start) has been observed: the session in the current
\* slot after a promotion is an acknowledged one.
C2_PromotedWasAcknowledged ==
    Promoted => sess[mgr.current_session].received_completion_start

\* the chunk ids lo..hi in order
Ids(lo, hi) == [k \in 1..(IF hi >= lo THEN hi - lo + 1 ELSE 0) |-> lo + k - 1]

\* C3: no input audio is lost or duplicated across a replacement. The promoted
\* session has been handed, once each and in arrival order, the chunks buffered
\* since buffering began (within the cap at the flush) and every chunk that
\* arrived after the promotion.
C3_AudioAcrossReplacement ==
    Promoted => sess[mgr.current_session].audio = Ids(owed_from, mgr.audio_chunk_count)

\* the handoff towards the successor of session s has begun
HandoffBegun(s) ==
    /\ mgr.current_session = s
    /\ hand[Inline].pc \in {"hist", "audio"}

\* session s has been sent its closing events and is Closed
ClosedDown(s) ==
    /\ sess[s].state = "closed"
    /\ {"audioEnd", "promptEnd", "sessionEnd"} \subseteq sess[s].signals

C5_CreationFailureResets ==
    [][(mon.pc = "create" /\ mon'.pc # "create" /\ mgr'.next_session = None) =>
          /\ ~mgr'.is_transitioning
          /\ ~mgr'.waiting_for_audio_start
          /\ ~mgr'.waiting_for_completion
          /\ ~mgr'.is_buffering
          /\ mon'.pc = "loop"]_vars

\* C6: when a send to the next session fails during the handoff, the
\* transition is rolled back: is_transitioning and waiting_for_completion are
\* reset and the partial next session is discarded.
C6_SendFailureRollsBack ==
    [][\A p \in Owners :
          (/\ hand[p].pc \in {"hist", "audio"}
           /\ hand'[p].pc = "idle"
           /\ mgr'.current_session = mgr.current_session) =>
              /\ ~mgr'.is_transitioning
              /\ ~mgr'.waiting_for_completion
              /\ mgr'.next_session = None]_vars

\* the session a promotion under way has just replaced: it is marked CLOSING
\* once the watchdog task is over (lines 908-938)
Outgoing == {hand[p].old : p \in {q \in Owners : hand[q].pc = "await"}}

\* the sessions that are open without being the current one or the one a
\* promotion is replacing
SpareSessions ==
    {id \in SessionIds :
        /\ id # mgr.current_session
        /\ id \notin Outgoing
        /\ sess[id].state = "active"}

\* the sessions create_session is at work on
BeingCreated ==
    (IF mon.pc = "create" THEN {mon.id} ELSE {})
        \cup (IF wd.pc = "create" THEN {wd.id} ELSE {})

\* C20: at most one replacement is in progress. While is_transitioning is true
\* no audio-start wait is begun, so _initiate_transition is not triggered a
\* second time; at most one session is open or being created besides the
\* current one, and an open one is the session in the next slot.
C20_OneReplacementAtATime ==
    /\ mgr.is_transitioning => ~mgr.waiting_for_audio_start
    /\ Cardinality(SpareSessions \cup BeingCreated) <= 1
    /\ SpareSessions \subseteq {mgr.next_session}

\* C20 witness: during one transition the watchdog has replaced the candidate,
\* and the fresh session alone is in the next slot
C20_Witness ==
    /\ mgr.is_transitioning
    /\ mgr.current_session = 1
    /\ mgr.next_session = 3
    /\ sess[2].state \in {"closing", "closed"}
    /\ sess[3].state = "active"

\* the ids of the chunks the AudioBuffer holds, oldest first
BufferIds(b) == [k \in 1..Len(b.buffer) |-> b.buffer[k].id]

\* this step hands session n an event of the history replay
HistoryGoesTo(n) == Len(sess'[n].history) > Len(sess[n].history)

\* this step hands session n the audio-start marker
MarkerGoesTo(n) == "audioStart" \in sess'[n].signals \ sess[n].signals

\* in this step invocation p of the handoff swaps the next session into the
\* current slot
PromotionBy(p) ==
    /\ hand[p].pc = "audio"
    /\ hand'[p].pc # "audio"
    /\ mgr'.current_session # mgr.current_session

\* C21: handoff ordering. An event of the history replay goes to the next
\* session only while that session has had neither the audio-start marker nor
\* audio; the marker goes to it only when it holds the full replay, in history
\* order, and no audio yet; and the next session is promoted only when it
\* holds the marker, and with the buffered chunks flushed to it in FIFO order.
C21_HandoffOrdering ==
    [][/\ \A n \in SessionIds :
            /\ HistoryGoesTo(n) =>
                  /\ n = mgr.next_session
                  /\ "audioStart" \notin sess[n].signals
                  /\ sess[n].audio = <<>>
            /\ MarkerGoesTo(n) =>
                  /\ n = mgr.next_session
                  /\ sess[n].audio = <<>>
                  /\ \E p \in Owners :
                        /\ hand'[p].pc = "audio"
                        /\ sess[n].history = hand'[p].history_events
       /\ \A p \in Owners :
            PromotionBy(p) =>
               /\ mgr'.current_session = mgr.next_session
               /\ "audioStart" \in sess[mgr.next_session].signals
               /\ sess'[mgr.next_session].audio = BufferIds(mgr.audio_buffer)]_vars

\* C28: the session that is promoted is the very session that received the
\* complete history replay of this handoff, its audio-start marker and its
\* buffer flush, whatever the watchdog did to the next slot meanwhile.
C28_PromotedGotWholeHandoff ==
    [][\A p \in Owners :
          PromotionBy(p) =>
             LET n == mgr'.current_session
             IN  /\ sess'[n].history = hand[p].history_events
                 /\ "audioStart" \in sess'[n].signals
                 /\ Len(sess'[n].audio) >= Len(mgr.audio_buffer.buffer)
                 /\ SubSeq(sess'[n].audio, 1, Len(mgr.audio_buffer.buffer))
                        = BufferIds(mgr.audio_buffer)]_vars

\* the signals that close a stream
CloseSignals == {"audioEnd", "promptEnd", "sessionEnd"}

\* in this step invocation p of the handoff returns from
\* _close_old_session_and_promote, the swap done
PromotionCompletedBy(p) ==
    /\ hand'[p].pc = "idle"
    /\ \/ hand[p].pc = "await"
       \/ PromotionBy(p)

\* the session a promotion completing in this step has replaced
ReplacedBy(p) == IF hand[p].pc = "await" THEN hand[p].old ELSE mgr.current_session

Sending(h) == h.pc \in {"hist", "audio"}

\* in this step invocation p begins the history send
HandoffStartedBy(p) == ~Sending(hand[p]) /\ hand[p].pc # "await" /\ Sending(hand'[p])

\* the counters of the current session after a FINAL text that makes them match
CountsMatch(i) ==
    /\ i.speculative_text_count > 0
    /\ i.speculative_text_count = i.final_text_count

TeardownBegins == wd.pc = "sleep" /\ wd'.pc = "send1"

\* in this step the session in the next slot is replaced by another one
NextReplaced ==
    /\ mgr.next_session # None
    /\ mgr'.next_session \notin {None, mgr.next_session}

\* C24: readiness watchdog. The watchdog tears down only a session that is
\* still the next session of an ongoing transition and that the service has
\* not acknowledged in time; a next session is replaced only by the watchdog,
\* after its teardown, by a freshly created session with a new id on which a
\* new watchdog is started.
C24_ReadinessWatchdog ==
    [][/\ TeardownBegins =>
             /\ mgr.is_transitioning
             /\ mgr.next_session = wd.sess
             /\ sess'[wd.sess].state = "closing"
             /\ ~sess[wd.sess].completion_start_arrived
       /\ NextReplaced =>
             LET dead == mgr.next_session
                 fresh == mgr'.next_session
             IN  /\ wd.pc = "create"
                 /\ wd.sess = dead
                 /\ sess[dead].state \in {"closing", "closed"}
                 /\ fresh > dead
                 /\ sess[fresh].state = "absent"
                 /\ sess'[fresh].state = "active"
                 /\ wd'.pc = "sleep"
                 /\ wd'.sess = fresh]_vars

\* C25: once the next session it monitors has been superseded, the watchdog
\* is cancelled and takes no further effect: a step of the cancelled watchdog
\* task changes no session's state, hands no stream a close signal, and
\* neither creates nor assigns a next session.
C25_CancelledWatchdogInert ==
    [][(wd.cancel /\ wd' # wd) =>
          /\ \A id \in SessionIds :
                /\ sess'[id].state = sess[id].state
                /\ sess'[id].signals = sess[id].signals
          /\ mgr'.next_session = mgr.next_session
          /\ mgr'.session_counter = mgr.session_counter]_vars

\* C29: while the manager runs, the current session is always Active, so
\* add_audio_chunk always forwards to it: a session whose teardown the
\* readiness watchdog has begun is never promoted to, or left as, the current
\* session.
C29_CurrentAlwaysActive ==
    mgr.current_session # None => sess[mgr.current_session].state = "active"

UserSpeaksInWindow ==
    mgr.is_transitioning /\ ~mgr.user_was_speaking /\ mgr'.user_was_speaking

\* the monitor processes an assistant FINAL text while is_transitioning holds
\* (line 628 counts it)
AssistantFinalInWindow ==
    /\ mgr.is_transitioning
    /\ info.current_generation_stage = "FINAL"
    /\ info'.final_text_count = info.final_text_count + 1

\* the window closes with the promotion: the step of lines 917-923
WindowClosesByPromotion ==
    /\ mgr.is_transitioning
    /\ ~mgr'.is_transitioning
    /\ \E p \in Owners : PromotionCompletedBy(p)

\* in the window a user text the current session reports is not recorded
CurrentUserTextNotRecorded ==
    [][UserSpeaksInWindow => mgr'.messages = mgr.messages]_vars

\* in the window an assistant FINAL text of the current session is recorded
AssistantFinalRecorded ==
    [][AssistantFinalInWindow =>
          /\ mgr'.messages # <<>>
          /\ mgr'.messages[Len(mgr'.messages)].role = "ASSISTANT"]_vars

\* C26: attribution during the transition window. While is_transitioning
\* holds a user text the current session reports is not recorded and an
\* assistant FINAL text of the current session is; and what the user said in
\* the window is recorded, from the next session's report: a window in which
\* the user spoke and which the promotion closes has had a USER message
\* appended to the history.
C26_WindowAttribution ==
    [][/\ UserSpeaksInWindow => mgr'.messages = mgr.messages
       /\ AssistantFinalInWindow =>
             /\ mgr'.messages # <<>>
             /\ mgr'.messages[Len(mgr'.messages)].role = "ASSISTANT"
       /\ (WindowClosesByPromotion /\ mgr.user_was_speaking) =>
             recorded_in_window >= 1]_vars

\* the chunks played since the text t was processed
PlayedSince(t) ==
    {observed.played[k] : k \in (t.played + 1)..Len(observed.played)}

\* C27 as claimed: a user text of the current session processed during
\* waiting_for_completion sets the barge-in flag and empties the output-audio
\* queue, so that no chunk that was on the queue at that moment is played
\* afterwards.
C27_UserSpeechEmptiesQueue ==
    (observed.speech.seen /\ playback.waiting_for_completion) =>
        /\ playback.barge_in_occurred
        /\ PlayedSince(observed.speech) \cap observed.speech.pending = {}

\* C27 amended: a user text of the current session processed in a transition
\* sets user_was_speaking and barge_in_occurred and leaves the output-audio
\* queue as it is; the text carrying the barge-in marker empties the queue,
\* sets barge_in_detected (and barge_in_occurred in a transition), and no
\* chunk that was on the queue when a marker arrived is played afterwards.
C27_BargeIn ==
    [][/\ observed'.speech # observed.speech =>
             /\ playback'.user_was_speaking
             /\ playback'.barge_in_occurred
             /\ playback'.audio_output_queue = playback.audio_output_queue
       /\ observed'.marker # observed.marker =>
             /\ playback'.audio_output_queue = <<>>
             /\ playback'.barge_in_detected
             /\ playback.is_transitioning => playback'.barge_in_occurred
       /\ observed'.played # observed.played =>
             /\ observed.marker.pending \cap
                    {observed'.played[k] :
                        k \in (observed.marker.played + 1)..Len(observed'.played)}
                  = {}
             /\ playback'.audio_output_queue = Tail(playback.audio_output_queue)]_vars

\* C27 witness: during waiting_for_completion a user text arrived with audio
\* on the queue, then the marker arrived with audio still on the queue, and
\* a chunk queued after the marker has been played
C27_Witness ==
    /\ playback.waiting_for_completion
    /\ observed.speech.seen
    /\ observed.speech.pending # {}
    /\ observed.marker.seen
    /\ observed.marker.pending # {}
    /\ observed.marker.played >= observed.speech.played
    /\ Len(observed.played) > observed.marker.played

====
